---- MODULE Spec2Model ----
(***************************************************************************)
(* Model of the local full-text search engine                              *)
(* (src/projects/local-search/src/engine.js) and of the command-line       *)
(* processes that run it (src/projects/local-search/src/cli.js).           *)
(*                                                                         *)
(* Strings (paths, file contents, terms, ignore patterns) are sequences of *)
(* one-character strings, so that startsWith, endsWith, toLowerCase, the   *)
(* tokenizer's regular expressions and path.extname are computed character *)
(* by character, as the code computes them.                                *)
(*                                                                         *)
(* JavaScript objects used as maps (documents, invertedIndex, docFreq,     *)
(* posting maps, wordCounts) are functions over their OWN keys; a property *)
(* read that misses the own keys falls through to Object.prototype, which  *)
(* is modelled by ProtoKeys.                                               *)
(***************************************************************************)
EXTENDS Integers, Sequences, FiniteSets, TLC

(***************************************************************************)
(* Bounds of the model.                                                    *)
\* the pattern lists given to the ignore matcher have at most MaxPatterns lines
MaxPatterns == 2

\* the texts given to tokenize are made of at most MaxPieces pieces
MaxPieces == 3

(***************************************************************************)
\* modification times of files are drawn from 1..MaxMtime
MaxMtime == 2
\* the clock read by `new Date()` is drawn from 1..MaxTime
MaxTime == 1
\* direct addDocument / removeDocument calls are explored while totalDocs
\* stays within -MaxDrift .. MaxDrift of the number of stored documents
MaxDrift == 1

(***************************************************************************)
(* Characters and strings                                                  *)
(***************************************************************************)
UpperChars == <<"A","B","C","D","E","F","G","H","I","J","K","L","M","N","O","P","Q","R","S","T","U","V","W","X","Y","Z">>
LowerChars == <<"a","b","c","d","e","f","g","h","i","j","k","l","m","n","o","p","q","r","s","t","u","v","w","x","y","z">>
DigitChars == <<"0","1","2","3","4","5","6","7","8","9">>

Range(s) == { s[i] : i \in DOMAIN s }

\* String.prototype.toLowerCase, one character
LowerChar(c) ==
    IF \E i \in DOMAIN UpperChars : UpperChars[i] = c
    THEN LowerChars[CHOOSE i \in DOMAIN UpperChars : UpperChars[i] = c]
    ELSE c

\* a conversion that leaves upper-case letters as they are
toLowerCase_none(s) == s

toLowerCase(s) == [ i \in DOMAIN s |-> LowerChar(s[i]) ]

\* the regular expression class \s, on the characters the model uses
IsSpace(c) == c \in {" ", "\n", "\t"}

\* the regular expression class [a-z0-9_]
IsWordChar(c) == c \in Range(LowerChars) \cup Range(DigitChars) \cup {"_"}

startsWith(s, prefix) ==
    /\ Len(prefix) <= Len(s)
    /\ SubSeq(s, 1, Len(prefix)) = prefix

endsWith(s, suffix) ==
    /\ Len(suffix) <= Len(s)
    /\ SubSeq(s, Len(s) - Len(suffix) + 1, Len(s)) = suffix

\* String.prototype.substring(0, n)
substring0(s, n) == SubSeq(s, 1, IF Len(s) < n THEN Len(s) ELSE n)

\* index of the last occurrence of character c in s, 0 when there is none
LastIndexOf(s, c) ==
    IF \E i \in DOMAIN s : s[i] = c
    THEN CHOOSE i \in DOMAIN s : s[i] = c /\ \A j \in DOMAIN s : s[j] = c => j <= i
    ELSE 0

\* path.basename
basename(p) == SubSeq(p, LastIndexOf(p, "/") + 1, Len(p))

\* path.extname: from the last '.' of the base name; empty when the base name
\* has no '.' or only a leading one
extname(p) ==
    LET b == basename(p)
        d == LastIndexOf(b, ".")
    IN  IF d <= 1 THEN <<>> ELSE SubSeq(b, d, Len(b))

\* String.prototype.replace('.', ''): removes the first '.'
RemoveFirstDot(s) ==
    IF \E i \in DOMAIN s : s[i] = "."
    THEN LET i == CHOOSE k \in DOMAIN s : s[k] = "." /\ \A j \in DOMAIN s : s[j] = "." => k <= j
         IN  SubSeq(s, 1, i - 1) \o SubSeq(s, i + 1, Len(s))
    ELSE s

\* path.extname(p).toLowerCase().replace('.', '')
Extension(p) == RemoveFirstDot(toLowerCase(extname(p)))

\* path.relative(dirPath, fullPath), for fullPath below dirPath
relative(dirPath, fullPath) == SubSeq(fullPath, Len(dirPath) + 2, Len(fullPath))

(***************************************************************************)
(* Program constants                                                       *)
(***************************************************************************)
MAX_FILE_SIZE == 5 * 1024 * 1024
PREVIEW_LENGTH == 120
\* length of the content prefix a Document stores
CONTENT_STORED == 10000
MinTokenLen == 2
MaxTokenLen == 50

BINARY_EXTENSIONS == {
    <<"e","x","e">>, <<"d","l","l">>, <<"s","o">>, <<"d","y","l","i","b">>,
    <<"b","i","n">>, <<"j","p","g">>, <<"j","p","e","g">>, <<"p","n","g">>,
    <<"g","i","f">>, <<"b","m","p">>, <<"w","e","b","p">>, <<"s","v","g">>,
    <<"i","c","o">>, <<"m","p","3">>, <<"m","p","4">>, <<"a","v","i">>,
    <<"m","o","v">>, <<"m","k","v">>, <<"w","a","v">>, <<"f","l","a","c">>,
    <<"z","i","p">>, <<"t","a","r">>, <<"g","z">>, <<"b","z","2">>,
    <<"7","z">>, <<"r","a","r">>, <<"p","d","f">>, <<"d","o","c">>,
    <<"d","o","c","x">>, <<"x","l","s">>, <<"x","l","s","x">>, <<"p","p","t">>,
    <<"p","p","t","x">>, <<"o">>, <<"o","b","j">>, <<"a">>,
    <<"l","i","b">>, <<"c","l","a","s","s">>, <<"p","y","c">>, <<"p","y","o">>,
    <<"w","o","f","f">>, <<"w","o","f","f","2">>, <<"t","t","f">>, <<"o","t","f">>,
    <<"e","o","t">>, <<"d","b">>, <<"s","q","l","i","t","e">>, <<"s","q","l","i","t","e","3">> }

isBinaryFile(filePath) == Extension(filePath) \in BINARY_EXTENSIONS

(***************************************************************************)
(* Ignore matcher                                                          *)
(***************************************************************************)
DefaultPatterns == <<
    <<"n","o","d","e","_","m","o","d","u","l","e","s","/">>,
    <<".","g","i","t","/">>,
    <<".","s","v","n","/">>,
    <<".","h","g","/">>,
    <<"t","a","r","g","e","t","/">>,
    <<"d","i","s","t","/">>,
    <<"b","u","i","l","d","/">>,
    <<".","n","e","x","t","/">>,
    <<".","n","u","x","t","/">>,
    <<"c","o","v","e","r","a","g","e","/">>,
    <<"*",".","l","o","g">>,
    <<".","e","n","v">>,
    <<".","e","n","v",".","*">>,
    <<"*",".","m","i","n",".","j","s">>,
    <<"*",".","m","i","n",".","c","s","s">>,
    <<".","l","o","c","a","l","-","s","e","a","r","c","h","-","i","n","d","e","x","/">>,
    <<".","l","o","c","a","l","-","s","e","a","r","c","h","/">> >>

\* lines of the .searchignore (or, failing that, .gitignore) file of dirPath:
\* the modelled tree holds neither file, so ignoreContent stays ''
IgnoreFileLines(dirPath) == <<>>

\* the pattern list built by loadIgnorePatterns(dirPath)
loadIgnorePatterns(dirPath) == DefaultPatterns \o IgnoreFileLines(dirPath)

\* a matcher that compares with the pattern line as it is written
cleanPattern_keep(pattern) == pattern

\* pattern.replace(/\/$/, '')
cleanPattern(pattern) ==
    IF Len(pattern) > 0 /\ pattern[Len(pattern)] = "/"
    THEN SubSeq(pattern, 1, Len(pattern) - 1)
    ELSE pattern

\* ig.ignores(relativePath) for the pattern list `patterns`
ignores(patterns, relativePath) ==
    \E i \in DOMAIN patterns :
        LET pattern == patterns[i]
            clean   == cleanPattern(pattern)
        IN  \/ relativePath = clean
            \/ startsWith(relativePath, clean \o <<"/">>)
            \/ startsWith(relativePath, clean \o <<"\\">>)
            \/ /\ startsWith(pattern, <<"*", ".">>)
               /\ endsWith(relativePath, <<".">> \o SubSeq(pattern, 3, Len(pattern)))

(***************************************************************************)
(* Tokenizer                                                               *)
(***************************************************************************)
\* .replace(/[^a-z0-9_\s]/g, ' ')
ReplaceNonWord(s) ==
    [ i \in DOMAIN s |-> IF IsWordChar(s[i]) \/ IsSpace(s[i]) THEN s[i] ELSE " " ]

\* .split(/\s+/): the pieces between maximal runs of white space (a leading or
\* trailing run leaves an empty piece); a piece is taken in one step, up to
\* the next white space
RECURSIVE SplitSpaces(_, _, _)
SplitSpaces(s, i, cur) ==
    IF i > Len(s) THEN <<cur>>
    ELSE IF IsSpace(s[i])
         THEN IF i > 1 /\ IsSpace(s[i - 1])
              THEN SplitSpaces(s, i + 1, cur)
              ELSE <<cur>> \o SplitSpaces(s, i + 1, <<>>)
         ELSE LET rest == { k \in i..Len(s) : IsSpace(s[k]) }
                  j    == IF rest = {} THEN Len(s) + 1
                          ELSE CHOOSE k \in rest : \A m \in rest : k <= m
              IN  SplitSpaces(s, j, cur \o SubSeq(s, i, j - 1))

\* a token filter without the lower length limit
KeepToken_any(w) == Len(w) >= 1 /\ Len(w) <= MaxTokenLen

KeepToken(w) == Len(w) >= MinTokenLen /\ Len(w) <= MaxTokenLen

tokenize(text) ==
    SelectSeq(SplitSpaces(ReplaceNonWord(toLowerCase(text)), 1, <<>>), KeepToken)

TextA == <<"A","a",","," ","a","a","\n","b","b"," ","c">>
TextC == <<"c","o","n","s","t","r","u","c","t","o","r"," ","a","a">>
TextApple  == <<"a","p","p","l","e"," ","b","a","n","a","n","a"," ","a","p","p","l","e">>
TextCherry == <<"b","a","n","a","n","a"," ","c","h","e","r","r","y">>

(***************************************************************************)
(* JavaScript values and objects                                           *)
(***************************************************************************)
\* Number values that are not integers are encoded as integers no count or
\* counter of the model reaches:
\*   NaN       the result of ++ / -- on a value that is not a number
\*   JsonNull  null, which is what JSON.stringify writes for NaN
\*   StrValue  a string that is not numeric ("function Object() {...}1")
NaN == -999
JsonNull == -998
StrValue == -997

Constructor == <<"c","o","n","s","t","r","u","c","t","o","r">>
DunderProto == <<"_","_","p","r","o","t","o","_","_">>

\* property names every object literal and every JSON.parse'd object inherits
\* from Object.prototype with a truthy value, among the keys the model uses
ProtoKeys == {Constructor, DunderProto}

EmptyMap == [ k \in {} |-> 0 ]
Put(m, k, v) == [ x \in DOMAIN m \cup {k} |-> IF x = k THEN v ELSE m[x] ]
Del(m, k) == [ x \in DOMAIN m \ {k} |-> m[x] ]

\* obj[k] is truthy, for an object whose own values are all truthy
Truthy(m, k) == k \in DOMAIN m \/ k \in ProtoKeys

\* x++ and x-- as JavaScript computes the new value of a docFreq entry: an
\* absent or inherited (function) value converts to NaN, null converts to 0
NumGet(m, k) == IF k \in DOMAIN m THEN m[k] ELSE NaN
Inc(v) == IF v = NaN THEN NaN ELSE IF v = JsonNull THEN 1 ELSE v + 1
Dec(v) == IF v = NaN THEN NaN ELSE IF v = JsonNull THEN 0 - 1 ELSE v - 1
LeqZero(v) == v # NaN /\ (v = JsonNull \/ v <= 0)

(***************************************************************************)
(* Index                                                                   *)
(***************************************************************************)
\* lastUpdated: null
Never == 0

\* order is no field of the object: it is the order of the keys of documents,
\* the order of their insertion, in which Object.keys and Object.entries
\* enumerate them and JSON.stringify writes them. The paths of a posting map
\* are enumerated in the same relative order, since addDocument inserts a
\* path into documents and into its posting maps in one call and
\* removeDocument deletes it from all of them.
createEmptyIndex ==
    [ version       |-> 1,
      documents     |-> EmptyMap,
      invertedIndex |-> EmptyMap,
      docFreq       |-> EmptyMap,
      totalDocs     |-> 0,
      lastUpdated   |-> Never,
      order         |-> <<>> ]

\* values JSON.parse can return that are not an Index
JsNull == [ isNull |-> TRUE ]
EmptyObject == EmptyMap

\* this.index.documents (and the other fields) can be read
IsIndex(ix) == DOMAIN ix = DOMAIN createEmptyIndex

\* An engine process: its index, and the properties the process has added to
\* the global Object function (which is what invertedIndex['constructor']
\* evaluates to while 'constructor' is not an own key)
NewEngine(ix) == [ index |-> ix, objectFn |-> {} ]

\* wordCounts of addDocument: keys in insertion order, and the values
EmptyWordCounts == [ keys |-> <<>>, val |-> EmptyMap ]

RECURSIVE CountTokens(_, _, _)
CountTokens(tokens, i, wc) ==
    IF i > Len(tokens) THEN wc
    ELSE LET t   == tokens[i]
             new == IF t \in DOMAIN wc.val
                    THEN IF wc.val[t] = StrValue THEN StrValue ELSE wc.val[t] + 1
                    ELSE IF t \in ProtoKeys THEN StrValue ELSE 1
         IN  \* assigning a string to wordCounts['__proto__'] sets nothing
             IF t = DunderProto
             THEN CountTokens(tokens, i + 1, wc)
             ELSE CountTokens(tokens, i + 1,
                    [ keys |-> IF t \in DOMAIN wc.val THEN wc.keys ELSE Append(wc.keys, t),
                      val  |-> Put(wc.val, t, new) ])

\* one iteration of addDocument's loop over Object.entries(wordCounts)
AddPosting(st, filePath, word, count) ==
    LET ix      == st.index
        hasMap  == Truthy(ix.invertedIndex, word)
        inv1    == IF hasMap THEN ix.invertedIndex ELSE Put(ix.invertedIndex, word, EmptyMap)
        df1     == IF hasMap THEN ix.docFreq ELSE Put(ix.docFreq, word, 0)
        own     == word \in DOMAIN inv1
        present == IF own THEN Truthy(inv1[word], filePath) ELSE filePath \in st.objectFn
        df2     == IF present THEN df1 ELSE Put(df1, word, Inc(NumGet(df1, word)))
        inv2    == IF own THEN [ inv1 EXCEPT ![word] = Put(@, filePath, count) ] ELSE inv1
    IN  [ index    |-> [ ix EXCEPT !.invertedIndex = inv2, !.docFreq = df2 ],
          objectFn |-> IF own THEN st.objectFn ELSE st.objectFn \cup {filePath} ]

RECURSIVE AddPostings(_, _, _, _)
AddPostings(st, filePath, wc, i) ==
    IF i > Len(wc.keys) THEN st
    ELSE AddPostings(AddPosting(st, filePath, wc.keys[i], wc.val[wc.keys[i]]),
                     filePath, wc, i + 1)

\* what addDocument computes from the content alone: tokens, wordCounts and
\* the stored prefix
Analyse(content) ==
    LET tokens == tokenize(content)
    IN  [ tokens     |-> tokens,
          wordCounts |-> CountTokens(tokens, 1, EmptyWordCounts),
          stored     |-> substring0(content, CONTENT_STORED),
          length     |-> Len(content) ]

\* the texts of the model (see File system below), analysed once
Texts == {TextA, TextC, TextApple, TextCherry}
Analysed == [ content \in Texts |-> Analyse(content) ]

addDocument(st, filePath, filename, content, modified, extension) ==
    LET a   == IF content \in Texts THEN Analysed[content] ELSE Analyse(content)
        doc == [ filename    |-> filename,
                 content     |-> a.stored,
                 modified    |-> modified,
                 size        |-> a.length,
                 extension   |-> extension,
                 wordCount   |-> Len(a.tokens),
                 uniqueWords |-> Len(a.wordCounts.keys) ]
        st1 == [ st EXCEPT
                   !.index.documents = Put(@, filePath, doc),
                   !.index.order = IF filePath \in DOMAIN st.index.documents
                                   THEN @ ELSE Append(@, filePath) ]
        st2 == AddPostings(st1, filePath, a.wordCounts, 1)
    IN  [ st2 EXCEPT !.index.totalDocs = @ + 1 ]

removeDocument(st, filePath) ==
    LET ix      == st.index
        inv     == ix.invertedIndex
        hit(w)  == Truthy(inv[w], filePath)
        left(w) == Dec(NumGet(ix.docFreq, w))
        dead(w) == hit(w) /\ LeqZero(left(w))
        gone    == { w \in DOMAIN inv : dead(w) }
    IN  IF ~Truthy(ix.documents, filePath) THEN st
        ELSE [ st EXCEPT
                 !.index.invertedIndex =
                     [ w \in DOMAIN inv \ gone |->
                         IF hit(w) THEN Del(inv[w], filePath) ELSE inv[w] ],
                 !.index.docFreq =
                     [ w \in (DOMAIN ix.docFreq \cup { v \in DOMAIN inv : hit(v) }) \ gone |->
                         IF w \in DOMAIN inv /\ hit(w) THEN left(w) ELSE ix.docFreq[w] ],
                 !.index.documents = Del(@, filePath),
                 !.index.order = SelectSeq(@, LAMBDA q : q # filePath),
                 !.index.totalDocs = @ - 1 ]

(***************************************************************************)
(* File system                                                             *)
(***************************************************************************)
RootA  == <<"/","a">>
RootAB == <<"/","a","b">>
PathX    == <<"/","a","/","x",".","m","d">>
PathY    == <<"/","a","b","/","y",".","m","d">>
PathPng  == <<"/","a","/","p",".","p","n","g">>
PathLog  == <<"/","a","/","e",".","l","o","g">>
PathDist == <<"/","a","/","d","i","s","t","/","z",".","m","d">>
PathBig  == <<"/","a","/","b","i","g",".","m","d">>
PathNoRd == <<"/","a","/","u",".","m","d">>
PathNoSt == <<"/","a","/","v",".","m","d">>
RootS  == <<"/","s">>
PathSA == <<"/","s","/","a",".","t","x","t">>
PathSB == <<"/","s","/","b",".","t","x","t">>
RootL  == <<"/","l">>
PathLA == <<"/","l","/","a",".","m","d">>
PathLK == <<"/","l","/","k">>
PathLZ == <<"/","l","/","z",".","m","d">>

Roots == {RootA, RootAB}
\* all directories a crawl of the model starts from
CrawlRoots == Roots \cup {RootS}
\* a directory tree with a subdirectory that cannot be listed
TreeRoots == {RootL}
\* the directories readdirSync fails on (EACCES)
UnlistableDirs == {PathLK}
\* files the model creates, rewrites and deletes
MutablePaths == {PathX, PathY}
\* the order in which a walk, and Object.keys(documents), meets the paths
\* (that of a directory where it meets the directory entry)
PathOrder ==
    <<PathBig, PathDist, PathLog, PathPng, PathNoRd, PathNoSt, PathX, PathY, PathSA, PathSB,
      PathLA, PathLK, PathLZ>>

\* the contents other programs give the files of MutablePaths
Contents == {TextA, TextC}
Mtimes == 1..MaxMtime

\* exists: readdirSync lists the file; statable: statSync succeeds;
\* readable: readFileSync succeeds
NoFile ==
    [ content |-> <<>>, size |-> 0, exists |-> FALSE, mtime |-> 0, readable |-> FALSE,
      statable |-> FALSE ]
TextFile(content, mtime) ==
    [ content |-> content, size |-> Len(content), exists |-> TRUE, mtime |-> mtime,
      readable |-> TRUE, statable |-> TRUE ]

\* the contents and modification times the model gives each file
Versions(p) ==
    IF p = PathX
    THEN { [ TextFile(c, m) EXCEPT !.readable = r ] :
             c \in Contents, m \in Mtimes, r \in BOOLEAN }
    ELSE { TextFile(TextA, 1) }

\* files that are always there: a binary one, one the default patterns ignore,
\* one below a pruned directory, one over the size limit, one that cannot be
\* read, one that cannot be stat'ed, the two files of the directory /s, and
\* the two files of the directory /l
FixedFiles ==
    [ p \in {PathPng, PathLog, PathDist, PathBig, PathNoRd, PathNoSt, PathSA, PathSB,
             PathLA, PathLZ} |->
        IF p = PathBig THEN [ TextFile(TextA, 1) EXCEPT !.size = MAX_FILE_SIZE + 1 ]
        ELSE IF p = PathNoRd THEN [ TextFile(TextA, 1) EXCEPT !.readable = FALSE ]
        ELSE IF p = PathNoSt
        THEN [ TextFile(TextA, 1) EXCEPT !.statable = FALSE, !.readable = FALSE ]
        ELSE IF p = PathSA THEN TextFile(TextApple, 1)
        ELSE IF p = PathSB THEN TextFile(TextCherry, 1)
        ELSE TextFile(TextA, 1) ]

File(fsys, p) ==
    IF p \in DOMAIN fsys THEN fsys[p]
    ELSE IF p \in DOMAIN FixedFiles THEN FixedFiles[p]
    ELSE NoFile

\* a walk that enters every directory
Entered_unpruned(patterns, dirPath, fullPath) ==
    startsWith(fullPath, dirPath \o <<"/">>)

\* fullPath lies below dirPath and no directory between dirPath and it is
\* ignored (walkDir does not enter an ignored directory)
Entered(patterns, dirPath, fullPath) ==
    /\ startsWith(fullPath, dirPath \o <<"/">>)
    /\ LET rel == relative(dirPath, fullPath)
       IN  \A i \in DOMAIN rel :
              rel[i] = "/" => ~ignores(patterns, SubSeq(rel, 1, i))

\* What walkDir(dirPath) decides about a path from its name alone, for every
\* crawl root and path of the model (these do not depend on the state)
WalkPlan ==
    [ dirPath \in CrawlRoots \cup TreeRoots |->
        LET patterns == loadIgnorePatterns(dirPath)
        IN  [ i \in DOMAIN PathOrder |->
                LET fullPath == PathOrder[i]
                    entered  == Entered(patterns, dirPath, fullPath)
                IN  [ extension |-> Extension(fullPath),
                      entered   |-> entered,
                      ignored   |-> entered /\ ignores(patterns, relative(dirPath, fullPath)),
                      binary    |-> isBinaryFile(fullPath),
                      name      |-> basename(fullPath),
                      under     |-> startsWith(fullPath, dirPath) ] ] ]

(***************************************************************************)
(* Persistence                                                             *)
(***************************************************************************)
\* JSON.stringify(this.index): NaN is written as null
stringify(ix) ==
    IF IsIndex(ix)
    THEN [ ix EXCEPT !.docFreq =
             [ w \in DOMAIN @ |-> IF @[w] = NaN THEN JsonNull ELSE @[w] ] ]
    ELSE ix

\* states of the backing file INDEX_PATH
Missing == [ kind |-> "missing" ]
Corrupt == [ kind |-> "corrupt" ]
Json(text) == [ text |-> text, kind |-> "json" ]

\* a writer that leaves an existing file alone (as with the 'wx' flag)
writeFileSync_exclusive(file, data) == IF file.kind = "json" THEN file ELSE Json(data)

\* fs.writeFileSync(INDEX_PATH, data): the file afterwards
writeFileSync(file, data) == Json(data)

saveIndex(file, ix) == writeFileSync(file, stringify(ix))

\* JSON.parse of a file written as JSON gives its value back; a missing file
\* and one that does not parse give the empty index
loadIndex(file) ==
    IF file.kind = "json" THEN file.text ELSE createEmptyIndex

(***************************************************************************)
(* indexDirectory and update                                               *)
(***************************************************************************)
\* a walk that never takes a file for unchanged
Unchanged_never(ix, fullPath, f) == FALSE

\* existing && existing.modified === stats.mtime.getTime()
Unchanged(ix, fullPath, f) ==
    /\ fullPath \in DOMAIN ix.documents
    /\ ix.documents[fullPath].modified = f.mtime

\* a loop body that removes the old version before it reads the file
VisitFile_removeFirst(acc, fsys, plan, fullPath) ==
    LET f        == File(fsys, fullPath)
        ix       == acc.st.index
        existing == Truthy(ix.documents, fullPath)
        st1      == IF existing THEN removeDocument(acc.st, fullPath) ELSE acc.st
    IN  IF plan.ignored
        THEN [ acc EXCEPT !.ignoredFiles = @ + 1 ]
        ELSE IF plan.binary
        THEN [ acc EXCEPT !.binaryFiles = @ + 1 ]
        ELSE IF ~f.statable
        THEN [ acc EXCEPT !.ignoredFiles = @ + 1 ]
        ELSE IF f.size > MAX_FILE_SIZE
        THEN acc
        ELSE IF ~IsIndex(ix)
        THEN [ acc EXCEPT !.ignoredFiles = @ + 1 ]
        ELSE IF Unchanged(ix, fullPath, f)
        THEN acc
        ELSE IF ~f.readable
        THEN [ acc EXCEPT !.st = st1, !.ignoredFiles = @ + 1 ]
        ELSE [ acc EXCEPT
                 !.st = addDocument(st1, fullPath, plan.name, f.content,
                                    f.mtime, plan.extension),
                 !.filesIndexed = @ + 1 ]

\* a loop body that removes the old version of a changed file and does not
\* add the new one
VisitFile_dropChanged(acc, fsys, plan, fullPath) ==
    LET f        == File(fsys, fullPath)
        ix       == acc.st.index
        existing == Truthy(ix.documents, fullPath)
        st1      == IF existing THEN removeDocument(acc.st, fullPath) ELSE acc.st
    IN  IF plan.ignored
        THEN [ acc EXCEPT !.ignoredFiles = @ + 1 ]
        ELSE IF plan.binary
        THEN [ acc EXCEPT !.binaryFiles = @ + 1 ]
        ELSE IF ~f.statable
        THEN [ acc EXCEPT !.ignoredFiles = @ + 1 ]
        ELSE IF f.size > MAX_FILE_SIZE
        THEN acc
        ELSE IF ~IsIndex(ix)
        THEN [ acc EXCEPT !.ignoredFiles = @ + 1 ]
        ELSE IF Unchanged(ix, fullPath, f)
        THEN acc
        ELSE IF ~f.readable
        THEN [ acc EXCEPT !.ignoredFiles = @ + 1 ]
        ELSE IF existing
        THEN [ acc EXCEPT !.st = st1, !.filesIndexed = @ + 1 ]
        ELSE [ acc EXCEPT
                 !.st = addDocument(st1, fullPath, plan.name, f.content,
                                    f.mtime, plan.extension),
                 !.filesIndexed = @ + 1 ]

\* the body of walkDir's loop for one file entry; plan is WalkPlan's record
\* for the entry
VisitFile(acc, fsys, plan, fullPath) ==
    LET f        == File(fsys, fullPath)
        ix       == acc.st.index
        existing == Truthy(ix.documents, fullPath)
        st1      == IF existing THEN removeDocument(acc.st, fullPath) ELSE acc.st
    IN  IF plan.ignored
        THEN [ acc EXCEPT !.ignoredFiles = @ + 1 ]
        ELSE IF plan.binary
        THEN [ acc EXCEPT !.binaryFiles = @ + 1 ]
        ELSE IF ~f.statable
        THEN [ acc EXCEPT !.ignoredFiles = @ + 1 ]
        ELSE IF f.size > MAX_FILE_SIZE
        THEN acc
        ELSE IF ~IsIndex(ix)
        THEN [ acc EXCEPT !.ignoredFiles = @ + 1 ]
        ELSE IF Unchanged(ix, fullPath, f)
        THEN acc
        ELSE IF ~f.readable
        THEN [ acc EXCEPT !.ignoredFiles = @ + 1 ]
        ELSE [ acc EXCEPT
                 !.st = addDocument(st1, fullPath, plan.name, f.content,
                                    f.mtime, plan.extension),
                 !.filesIndexed = @ + 1 ]

\* walkDir(dirPath) from the i-th path on. readdirSync is called outside the
\* try block: when it fails on a directory the walk enters, the exception
\* leaves walkDir and no later entry is visited.
RECURSIVE walkDir(_, _, _, _)
walkDir(acc, fsys, dirPath, i) ==
    IF i > Len(PathOrder) \/ acc.thrown THEN acc
    ELSE walkDir(IF ~WalkPlan[dirPath][i].entered
                 THEN acc
                 ELSE IF PathOrder[i] \in UnlistableDirs
                 THEN [ acc EXCEPT !.thrown = TRUE ]
                 ELSE IF File(fsys, PathOrder[i]).exists
                 THEN VisitFile(acc, fsys, WalkPlan[dirPath][i], PathOrder[i])
                 ELSE acc,
                 fsys, dirPath, i + 1)

\* the force branch: remove every stored path p with p.startsWith(dirPath)
RECURSIVE removeUnder(_, _, _, _)
removeUnder(st, keys, dirPath, i) ==
    IF i > Len(PathOrder) THEN st
    ELSE removeUnder(IF PathOrder[i] \in keys /\ WalkPlan[dirPath][i].under
                     THEN removeDocument(st, PathOrder[i])
                     ELSE st,
                     keys, dirPath, i + 1)

NoCall == [ op |-> "none", raised |-> FALSE ]
Raised(op) == [ op |-> op, raised |-> TRUE ]

\* indexDirectory(dirPath, force) at clock value now: the engine afterwards,
\* the backing file afterwards, and what the call returned. A TypeError
\* outside walkDir's try block ends the call before anything is saved, and
\* so does a failed readdirSync: the documents added until then stay in
\* this.index, lastUpdated is not set and nothing is saved.
indexDirectory(st, file, fsys, dirPath, force, now) ==
    LET st0 == IF force
               THEN removeUnder(st, DOMAIN st.index.documents, dirPath, 1)
               ELSE st
        acc == walkDir([ st |-> st0, filesIndexed |-> 0, binaryFiles |-> 0,
                         ignoredFiles |-> 0, thrown |-> FALSE ],
                       fsys, dirPath, 1)
        ix  == Put(acc.st.index, "lastUpdated", now)
    IN  IF (force /\ ~IsIndex(st.index)) \/ st.index = JsNull
        THEN [ st |-> st, file |-> file, ret |-> Raised("indexDirectory") ]
        ELSE IF acc.thrown
        THEN [ st |-> acc.st, file |-> file, ret |-> Raised("indexDirectory") ]
        ELSE [ st   |-> [ acc.st EXCEPT !.index = ix ],
               file |-> saveIndex(file, ix),
               ret  |-> [ op |-> "indexDirectory", raised |-> FALSE,
                          dirPath |-> dirPath, force |-> force,
                          filesIndexed |-> acc.filesIndexed,
                          binaryFiles  |-> acc.binaryFiles,
                          ignoredFiles |-> acc.ignoredFiles ] ]

\* an update that takes every stored path to exist
existsSync_always(fsys, docPath) == TRUE

\* fs.existsSync(docPath)
existsSync(fsys, docPath) == File(fsys, docPath).exists /\ File(fsys, docPath).statable

\* the body of update's loop for one entry [docPath, doc] of the documents
\* as they were when the loop started; a failed read is caught and skipped
UpdateOne(acc, fsys, docPath, doc, plan) ==
    LET f == File(fsys, docPath)
    IN  IF ~existsSync(fsys, docPath)
        THEN [ acc EXCEPT !.st = removeDocument(@, docPath), !.removed = @ + 1 ]
        ELSE IF f.mtime # doc.modified /\ f.readable
        THEN [ acc EXCEPT
                 !.st = addDocument(removeDocument(@, docPath), docPath,
                                    plan.name, f.content, f.mtime,
                                    plan.extension),
                 !.modified = @ + 1 ]
        ELSE acc

RECURSIVE updateLoop(_, _, _, _)
updateLoop(acc, fsys, docs, i) ==
    IF i > Len(PathOrder) THEN acc
    ELSE updateLoop(IF PathOrder[i] \in DOMAIN docs
                    THEN UpdateOne(acc, fsys, PathOrder[i], docs[PathOrder[i]],
                                   WalkPlan[RootA][i])
                    ELSE acc,
                    fsys, docs, i + 1)

update(st, file, fsys) ==
    LET acc == updateLoop([ st |-> st, removed |-> 0, modified |-> 0 ],
                          fsys, st.index.documents, 1)
    IN  IF ~IsIndex(st.index)
        THEN [ st |-> st, file |-> file, ret |-> Raised("update") ]
        ELSE [ st   |-> acc.st,
               file |-> saveIndex(file, acc.st.index),
               ret  |-> [ op |-> "update", raised |-> FALSE, added |-> 0,
                          removed |-> acc.removed, modified |-> acc.modified ] ]

(***************************************************************************)
(* search                                                                  *)
(***************************************************************************)
\* Scores are kept exact where the code computes in floating point. A number
\* is num / den with num in millionths; the values that are not numbers are
\* NaN and -Infinity.
Micro == 1000000

\* Math.log(n) in millionths, n = 1, 2, ..., rounded
LnMicro ==
    << 0, 693147, 1098612, 1386294, 1609438, 1791759, 1945910, 2079442,
       2197225, 2302585, 2397895, 2484907 >>

Number(num, den) == [ kind |-> "num", num |-> num, den |-> den ]
NotANumber == [ kind |-> "nan", num |-> 0, den |-> 1 ]
NegInfinity == [ kind |-> "-inf", num |-> 0, den |-> 1 ]

\* a weight that grows with docFreq
idf_increasing(totalDocs, df) ==
    LET n == totalDocs + 1
        d == IF df = JsonNull THEN 1 ELSE df + 1
    IN  IF df = NaN \/ df = StrValue \/ n < 0 THEN NotANumber
        ELSE IF n = 0 THEN NegInfinity
        ELSE Number(LnMicro[d] - LnMicro[n] + Micro, 1)

\* Math.log((totalDocs + 1) / (docFreq[token] + 1)) + 1, where df is what
\* docFreq[token] evaluates to. An own docFreq entry is at least 1, null (0 in
\* arithmetic) or NaN; the logarithm of 0 is -Infinity, of a negative number
\* NaN. The quotient of two positive integers has the logarithm ln n - ln d.
idf(totalDocs, df) ==
    LET n == totalDocs + 1
        d == IF df = JsonNull THEN 1 ELSE df + 1
    IN  IF df = NaN \/ df = StrValue \/ n < 0 THEN NotANumber
        ELSE IF n = 0 THEN NegInfinity
        ELSE Number(LnMicro[n] - LnMicro[d] + Micro, 1)

\* tf * idf with tf = count / doc.wordCount
Contribution(count, wordCount, w) ==
    IF count = StrValue \/ count = NaN \/ w.kind = "nan" THEN NotANumber
    ELSE IF w.kind = "-inf" THEN NegInfinity
    ELSE Number(count * w.num, wordCount)

\* score + contribution, both over the same document (the same wordCount)
Plus(score, c) ==
    IF score.kind = "nan" \/ c.kind = "nan" THEN NotANumber
    ELSE IF score.kind = "-inf" \/ c.kind = "-inf" THEN NegInfinity
    ELSE Number(score.num + c.num, c.den)

\* the sign of x - y
Sign(x, y) ==
    IF x.kind = "nan" \/ y.kind = "nan" THEN 0
    ELSE IF x.kind = "-inf" THEN (IF y.kind = "-inf" THEN 0 ELSE 0 - 1)
    ELSE IF y.kind = "-inf" THEN 1
    ELSE LET l == x.num * y.den
             r == y.num * x.den
         IN  IF l > r THEN 1 ELSE IF l < r THEN 0 - 1 ELSE 0

\* an order that puts the lower score first
comparefn_ascending(a, b) == Sign(a.score, b.score)

\* (a, b) => b.score - a.score, as sort reads it: NaN counts as 0
comparefn(a, b) == Sign(b.score, a.score)

\* Array.prototype.sort(comparefn) as V8 runs it on an array shorter than 64
\* elements: the run the array starts with is found (and reversed when it
\* descends), and the remaining elements are inserted one by one at the
\* place a binary search finds.
RECURSIVE RunLength(_, _, _)
RunLength(arr, descending, i) ==
    IF i > Len(arr) THEN Len(arr)
    ELSE LET order == comparefn(arr[i], arr[i - 1])
         IN  IF (descending /\ order >= 0) \/ (~descending /\ order < 0)
             THEN i - 1
             ELSE RunLength(arr, descending, i + 1)

Reverse(arr) == [ i \in DOMAIN arr |-> arr[Len(arr) + 1 - i] ]

\* the place of pivot among arr[1 .. right - 1]: left and right as in the
\* binary search, counted from 1
RECURSIVE InsertionPoint(_, _, _, _)
InsertionPoint(arr, pivot, left, right) ==
    IF left >= right THEN left
    ELSE LET mid == left + ((right - left) \div 2)
         IN  IF comparefn(pivot, arr[mid]) < 0
             THEN InsertionPoint(arr, pivot, left, mid)
             ELSE InsertionPoint(arr, pivot, mid + 1, right)

RECURSIVE BinaryInsertionSort(_, _)
BinaryInsertionSort(arr, start) ==
    IF start > Len(arr) THEN arr
    ELSE LET pivot == arr[start]
             at    == InsertionPoint(arr, pivot, 1, start)
         IN  BinaryInsertionSort(
                 SubSeq(arr, 1, at - 1) \o <<pivot>> \o SubSeq(arr, at, start - 1)
                     \o SubSeq(arr, start + 1, Len(arr)),
                 start + 1)

sort(arr) ==
    IF Len(arr) < 2 THEN arr
    ELSE LET descending == comparefn(arr[2], arr[1]) < 0
             run        == RunLength(arr, descending, 3)
             made       == IF descending
                           THEN Reverse(SubSeq(arr, 1, run)) \o SubSeq(arr, run + 1, Len(arr))
                           ELSE arr
         IN  BinaryInsertionSort(made, run + 1)

\* .slice(0, limit)
slice0(arr, limit) ==
    IF limit >= 0
    THEN SubSeq(arr, 1, IF limit < Len(arr) THEN limit ELSE Len(arr))
    ELSE SubSeq(arr, 1, IF Len(arr) + limit > 0 THEN Len(arr) + limit ELSE 0)

\* a filter that lets every document through
Filtered_none(extensions, doc) == FALSE

\* extensions.length > 0 && !extensions.includes(doc.extension)
Filtered(extensions, doc) ==
    Len(extensions) > 0 /\ doc.extension \notin Range(extensions)

\* Object.entries(docs) for docs = this.index.invertedIndex[token], as pairs
\* <<docPath, count>>. A token that is no own key but the name of a property
\* of Object.prototype reads an inherited object: 'constructor' the Object
\* function, whose enumerable properties are the ones addDocument has put on
\* it, every other one an object with none. (For any other token docs is
\* undefined and the loop continues.)
Entries(st, token) ==
    LET inv == st.index.invertedIndex
    IN  IF token \in DOMAIN inv
        THEN LET ps == SelectSeq(st.index.order, LAMBDA p : p \in DOMAIN inv[token])
             IN  [ i \in DOMAIN ps |-> <<ps[i], inv[token][ps[i]]>> ]
        ELSE IF token = Constructor
        THEN LET ps == SelectSeq(PathOrder, LAMBDA p : p \in st.objectFn)
             IN  [ i \in DOMAIN ps |-> <<ps[i], StrValue>> ]
        ELSE <<>>

\* candidateScores: keys in insertion order, and the values
NoScores == [ keys |-> <<>>, val |-> EmptyMap ]

\* !candidateScores[docPath]
Falsy(cs, docPath) ==
    \/ docPath \notin DOMAIN cs.val
    \/ cs.val[docPath].kind = "nan"
    \/ cs.val[docPath].kind = "num" /\ cs.val[docPath].num = 0

\* the body of the loop over the entries of one token
ScoreEntry(cs, st, entry, w, extensions) ==
    LET docPath == entry[1]
        count   == entry[2]
        docs    == st.index.documents
        doc     == docs[docPath]
        old     == IF Falsy(cs, docPath) THEN Number(0, doc.wordCount) ELSE cs.val[docPath]
    IN  IF docPath \notin DOMAIN docs THEN cs
        ELSE IF Filtered(extensions, doc) THEN cs
        ELSE [ keys |-> IF docPath \in DOMAIN cs.val THEN cs.keys ELSE Append(cs.keys, docPath),
               val  |-> Put(cs.val, docPath,
                            Plus(old, Contribution(count, doc.wordCount, w))) ]

RECURSIVE ScoreEntries(_, _, _, _, _, _)
ScoreEntries(cs, st, entries, w, extensions, i) ==
    IF i > Len(entries) THEN cs
    ELSE ScoreEntries(ScoreEntry(cs, st, entries[i], w, extensions),
                      st, entries, w, extensions, i + 1)

\* the loop over queryTokens
RECURSIVE ScoreTokens(_, _, _, _, _)
ScoreTokens(cs, st, queryTokens, extensions, i) ==
    IF i > Len(queryTokens) THEN cs
    ELSE LET token == queryTokens[i]
             w     == idf(st.index.totalDocs, NumGet(st.index.docFreq, token))
         IN  ScoreTokens(ScoreEntries(cs, st, Entries(st, token), w, extensions, 1),
                         st, queryTokens, extensions, i + 1)

\* the queries of the model, tokenized once
QOneLetter == <<"a">>
QEmpty == <<>>
QPunctuation == <<"?","!">>
QAa == <<"A","a">>
QApple == <<"a","p","p","l","e">>
QBanana == <<"b","a","n","a","n","a">>
QConstructor == Constructor
QAppleCherry == <<"a","p","p","l","e",","," ","c","h","e","r","r","y">>
QAaBanana == <<"a","a"," ","b","a","n","a","n","a">>
QMixed == <<"c","h","e","r","r","y"," ">> \o Constructor \o <<" ","a","p","p","l","e">>
Queries ==
    { QOneLetter, QEmpty, QPunctuation, QAa, QApple, QBanana, QConstructor,
      QAppleCherry, QAaBanana, QMixed }
QueryTokens == [ query \in Queries |-> tokenize(query) ]

\* String.prototype.indexOf(sub), counted from 0; -1 when sub does not occur
indexOf(s, sub) ==
    LET at == { i \in 0..(Len(s) - Len(sub)) : SubSeq(s, i + 1, i + Len(sub)) = sub }
    IN  IF at = {} THEN 0 - 1
        ELSE CHOOSE i \in at : \A j \in at : i <= j

\* String.prototype.substring(start, end), for 0 <= start <= end
substring(s, start, end) == SubSeq(s, start + 1, IF Len(s) < end THEN Len(s) ELSE end)

\* the loop of extractPreview: the first occurrence of any query token
RECURSIVE BestIndex(_, _, _, _)
BestIndex(contentLower, queryTokens, i, bestIndex) ==
    IF i > Len(queryTokens) THEN bestIndex
    ELSE LET idx == indexOf(contentLower, queryTokens[i])
         IN  BestIndex(contentLower, queryTokens, i + 1,
                       IF idx # 0 - 1 /\ (bestIndex = 0 - 1 \/ idx < bestIndex)
                       THEN idx ELSE bestIndex)

Ellipsis == <<".", ".", ".">>

\* .replace(/\n/g, ' ')
ReplaceNewlines(s) == [ i \in DOMAIN s |-> IF s[i] = "\n" THEN " " ELSE s[i] ]

\* .replace(/\s+/g, ' '): every maximal run of white space becomes one space
RECURSIVE CollapseSpaces(_, _)
CollapseSpaces(s, i) ==
    IF i > Len(s) THEN <<>>
    ELSE IF ~IsSpace(s[i]) THEN <<s[i]>> \o CollapseSpaces(s, i + 1)
    ELSE IF i > 1 /\ IsSpace(s[i - 1]) THEN CollapseSpaces(s, i + 1)
    ELSE <<" ">> \o CollapseSpaces(s, i + 1)

\* .trim()
trim(s) ==
    LET inked == { i \in DOMAIN s : ~IsSpace(s[i]) }
    IN  IF inked = {} THEN <<>>
        ELSE SubSeq(s, CHOOSE i \in inked : \A j \in inked : i <= j,
                       CHOOSE i \in inked : \A j \in inked : j <= i)

\* extractPreview(content, queryTokens)
extractPreview(content, queryTokens) ==
    LET contentLower == toLowerCase(content)
        bestIndex    == BestIndex(contentLower, queryTokens, 1, 0 - 1)
        half         == PREVIEW_LENGTH \div 2
        start        == IF bestIndex - half < 0 THEN 0 ELSE bestIndex - half
        end          == IF Len(content) < bestIndex + half
                        THEN Len(content) ELSE bestIndex + half
        head         == substring(content, 0, PREVIEW_LENGTH)
        window       == (IF start > 0 THEN Ellipsis ELSE <<>>)
                            \o substring(content, start, end)
                            \o (IF end < Len(content) THEN Ellipsis ELSE <<>>)
    IN  IF bestIndex = 0 - 1
        THEN IF Len(content) > PREVIEW_LENGTH THEN head \o Ellipsis ELSE head
        ELSE trim(CollapseSpaces(ReplaceNewlines(window), 1))

\* search(query, extensions, limit): what the call returns, or that it raised.
\* Reading this.index.invertedIndex[token] raises a TypeError when the index
\* is null or has no invertedIndex. previews[i] is the preview property of
\* results[i].
search(st, query, extensions, limit) ==
    LET queryTokens == IF query \in Queries THEN QueryTokens[query] ELSE tokenize(query)
        cs          == ScoreTokens(NoScores, st, queryTokens, extensions, 1)
        results     == [ i \in DOMAIN cs.keys |->
                           [ path     |-> cs.keys[i],
                             filename |-> st.index.documents[cs.keys[i]].filename,
                             score    |-> cs.val[cs.keys[i]] ] ]
        call        == [ op |-> "search", query |-> query, extensions |-> extensions,
                         limit |-> limit ]
        top         == slice0(sort(results), limit)
        previews    == [ i \in DOMAIN top |->
                           extractPreview(st.index.documents[top[i].path].content,
                                          queryTokens) ]
    IN  IF Len(queryTokens) = 0
        THEN call @@ [ raised |-> FALSE, results |-> <<>>, previews |-> <<>> ]
        ELSE IF ~IsIndex(st.index)
        THEN call @@ [ raised |-> TRUE, results |-> <<>>, previews |-> <<>> ]
        ELSE call @@ [ raised |-> FALSE, results |-> top, previews |-> previews ]

(***************************************************************************)
(* State                                                                   *)
(***************************************************************************)
VARIABLES
    fs,        \* the files of MutablePaths
    disk,      \* the backing file INDEX_PATH
    engine,    \* one engine process: this.index and the global Object function
    lastCall,  \* what the last call on engine returned; NoCall once the file
               \* system has changed since
    procs,     \* the command-line processes of SpecRace
    events     \* the loads and saves of those processes, in order

vars == <<fs, disk, engine, lastCall, procs, events>>

NotBuilt == [ built |-> FALSE ]
Built == engine # NotBuilt

NoFiles == [ p \in MutablePaths |-> NoFile ]
SomeFiles == [ p \in MutablePaths |-> IF p = PathX THEN TextFile(TextC, 1) ELSE TextFile(TextA, 1) ]

(***************************************************************************)
(* Spec: one engine, driven through indexDirectory and update, while other *)
(* programs write and delete files                                         *)
(***************************************************************************)
Init ==
    /\ fs = NoFiles
    /\ disk \in {Missing, Corrupt, Json(JsNull), Json(EmptyObject)}
    /\ engine = NotBuilt
    /\ lastCall = NoCall
    /\ procs = <<>>
    /\ events = <<>>

\* new SearchEngine()
Construct ==
    /\ ~Built
    /\ engine' = NewEngine(loadIndex(disk))
    /\ lastCall' = [ op |-> "constructor", raised |-> FALSE ]
    /\ UNCHANGED <<fs, disk, procs, events>>

IndexDirectoryCall(dirPath, force) ==
    /\ Built
    /\ \E now \in 1..MaxTime :
          LET r == indexDirectory(engine, disk, fs, dirPath, force, now)
          IN  /\ engine' = r.st
              /\ disk' = r.file
              /\ lastCall' = r.ret
    /\ UNCHANGED <<fs, procs, events>>

UpdateCall ==
    /\ Built
    /\ LET r == update(engine, disk, fs)
       IN  /\ engine' = r.st
           /\ disk' = r.file
           /\ lastCall' = r.ret
    /\ UNCHANGED <<fs, procs, events>>

\* another program writes, or deletes, a file
WriteFile(p, file) ==
    /\ fs' = [ fs EXCEPT ![p] = file ]
    /\ fs' # fs
    /\ lastCall' = NoCall
    /\ UNCHANGED <<disk, engine, procs, events>>

DeleteFile(p) ==
    /\ fs[p].exists
    /\ fs' = [ fs EXCEPT ![p] = NoFile ]
    /\ lastCall' = NoCall
    /\ UNCHANGED <<disk, engine, procs, events>>

Next ==
    \/ Construct
    \/ \E d \in Roots, force \in BOOLEAN : IndexDirectoryCall(d, force)
    \/ UpdateCall
    \/ \E p \in MutablePaths : \E file \in Versions(p) : WriteFile(p, file)
    \/ \E p \in MutablePaths : DeleteFile(p)

Spec == Init /\ [][Next]_vars

(***************************************************************************)
(* SpecApi: one engine used as a library, addDocument and removeDocument   *)
(* called directly as well, over a file system that stays as it is         *)
(***************************************************************************)
Drift(st) == st.index.totalDocs - Cardinality(DOMAIN st.index.documents)
WithinDrift(st) == Drift(st) <= MaxDrift /\ Drift(st) >= 0 - MaxDrift

InitApi ==
    /\ fs \in {NoFiles, SomeFiles}
    /\ disk = Missing
    /\ engine = NotBuilt
    /\ lastCall = NoCall
    /\ procs = <<>>
    /\ events = <<>>

AddDocumentCall(filePath, content, modified) ==
    /\ Built
    /\ engine' = addDocument(engine, filePath, basename(filePath), content,
                             modified, Extension(filePath))
    /\ WithinDrift(engine')
    /\ lastCall' = [ op |-> "addDocument", raised |-> FALSE ]
    /\ UNCHANGED <<fs, disk, procs, events>>

RemoveDocumentCall(filePath) ==
    /\ Built
    /\ engine' = removeDocument(engine, filePath)
    /\ WithinDrift(engine')
    /\ lastCall' = [ op |-> "removeDocument", raised |-> FALSE ]
    /\ UNCHANGED <<fs, disk, procs, events>>

NextApi ==
    \/ Construct
    \/ \E d \in Roots, force \in BOOLEAN : IndexDirectoryCall(d, force)
    \/ UpdateCall
    \/ \E c \in Contents, m \in Mtimes : AddDocumentCall(PathX, c, m)
    \/ \E p \in MutablePaths \cup {Constructor} : RemoveDocumentCall(p)

SpecApi == InitApi /\ [][NextApi]_vars

(***************************************************************************)
(* SpecRace: two command-line processes (cli.js main) run an index or an   *)
(* update command each, sharing the backing file with no lock: each loads  *)
(* it in the constructor, runs its command, which saves at its end, and    *)
(* saves again in engine.close()                                           *)
(***************************************************************************)
Procs == {1, 2}
Commands ==
    { [ dirPath |-> d, op |-> "index", force |-> f ] : d \in Roots, f \in BOOLEAN }
    \cup { [ dirPath |-> RootA, op |-> "update", force |-> FALSE ] }

\* the backing file an earlier `index /a` left, when PathX held TextA
SeedFiles == [ p \in MutablePaths |-> IF p = PathX THEN TextFile(TextA, MaxMtime) ELSE NoFile ]
Seeded ==
    indexDirectory(NewEngine(createEmptyIndex), Missing, SeedFiles, RootA, FALSE, 1).file

InitRace ==
    /\ fs = SomeFiles
    /\ disk \in {Missing, Seeded}
    /\ engine = NotBuilt
    /\ lastCall = NoCall
    /\ procs \in [ Procs -> { [ st |-> NotBuilt, pc |-> "start", cmd |-> c ] : c \in Commands } ]
    /\ events = <<>>

\* const engine = new SearchEngine()
Load(p) ==
    /\ procs[p].pc = "start"
    /\ procs' = [ procs EXCEPT ![p].pc = "loaded", ![p].st = NewEngine(loadIndex(disk)) ]
    /\ events' = Append(events, [ p |-> p, ev |-> "load" ])
    /\ UNCHANGED <<fs, disk, engine, lastCall>>

\* await engine.indexDirectory(fullPath, options.force) / await engine.update()
Run(p) ==
    /\ procs[p].pc = "loaded"
    /\ \E now \in 1..MaxTime :
          LET cmd == procs[p].cmd
              r   == IF cmd.op = "index"
                     THEN indexDirectory(procs[p].st, disk, fs, cmd.dirPath, cmd.force, now)
                     ELSE update(procs[p].st, disk, fs)
          IN  /\ procs' = [ procs EXCEPT ![p].pc = "ran", ![p].st = r.st ]
              /\ disk' = r.file
              /\ events' = IF r.ret.raised THEN events
                           ELSE Append(events, [ p |-> p, ev |-> "save" ])
    /\ UNCHANGED <<fs, engine, lastCall>>

\* finally { engine.close() }
Close(p) ==
    /\ procs[p].pc = "ran"
    /\ procs' = [ procs EXCEPT ![p].pc = "closed" ]
    /\ disk' = saveIndex(disk, procs[p].st.index)
    /\ events' = Append(events, [ p |-> p, ev |-> "save" ])
    /\ UNCHANGED <<fs, engine, lastCall>>

NextRace == \E p \in Procs : Load(p) \/ Run(p) \/ Close(p)

SpecRace == InitRace /\ [][NextRace]_vars

(***************************************************************************)
(* SpecCrash: command-line processes run one after the other, and a        *)
(* process can be killed at any point. saveIndex is fs.writeFileSync on    *)
(* INDEX_PATH itself: the file is opened with flag 'w', which truncates    *)
(* it, and the serialized index is written into it afterwards.             *)
(***************************************************************************)
\* INDEX_PATH after the open that truncates it and before the data is in it:
\* the file exists and holds no complete JSON text
Truncated == [ kind |-> "truncated" ]

Ended(p) == procs[p].pc \in {"closed", "killed"}

\* the index last written to INDEX_PATH in full
Committed == events[Len(events)].text

InitCrash ==
    /\ fs = SomeFiles
    /\ disk \in {Missing, Seeded}
    /\ engine = NotBuilt
    /\ lastCall = NoCall
    /\ procs \in [ Procs -> { [ st |-> NotBuilt, pc |-> "start", cmd |-> c ] : c \in Commands } ]
    /\ events = IF disk = Missing THEN <<>> ELSE << [ p |-> 0, text |-> disk.text, ev |-> "save" ] >>

\* const engine = new SearchEngine(), once the processes before it are gone
Start(p) ==
    /\ procs[p].pc = "start"
    /\ \A q \in Procs : q < p => Ended(q)
    /\ procs' = [ procs EXCEPT ![p].pc = "loaded", ![p].st = NewEngine(loadIndex(disk)) ]
    /\ UNCHANGED <<fs, disk, engine, lastCall, events>>

\* indexDirectory / update up to the call of this.saveIndex()
Command(p) ==
    /\ procs[p].pc = "loaded"
    /\ \E now \in 1..MaxTime :
          LET cmd == procs[p].cmd
              r   == IF cmd.op = "index"
                     THEN indexDirectory(procs[p].st, disk, fs, cmd.dirPath, cmd.force, now)
                     ELSE update(procs[p].st, disk, fs)
          IN  procs' = [ procs EXCEPT ![p].pc = "computed", ![p].st = r.st ]
    /\ UNCHANGED <<fs, disk, engine, lastCall, events>>

\* fs.writeFileSync, first half: open INDEX_PATH for writing
OpenIndexFile(p) ==
    /\ procs[p].pc \in {"computed", "ran"}
    /\ procs' = [ procs EXCEPT ![p].pc = IF @ = "computed" THEN "writing" ELSE "closing" ]
    /\ disk' = Truncated
    /\ UNCHANGED <<fs, engine, lastCall, events>>

\* fs.writeFileSync, second half: the data is written and the file closed
WriteIndexFile(p) ==
    /\ procs[p].pc \in {"writing", "closing"}
    /\ procs' = [ procs EXCEPT ![p].pc = IF @ = "writing" THEN "ran" ELSE "closed" ]
    /\ disk' = saveIndex(disk, procs[p].st.index)
    /\ events' = Append(events, [ p |-> p, ev |-> "save", text |-> disk'.text ])
    /\ UNCHANGED <<fs, engine, lastCall>>

\* the process is killed (SIGKILL, power loss): nothing of it runs any more
Kill(p) ==
    /\ procs[p].pc \in {"loaded", "computed", "writing", "ran", "closing"}
    /\ procs' = [ procs EXCEPT ![p].pc = "killed" ]
    /\ UNCHANGED <<fs, disk, engine, lastCall, events>>

NextCrash ==
    \E p \in Procs :
        Start(p) \/ Command(p) \/ OpenIndexFile(p) \/ WriteIndexFile(p) \/ Kill(p)

SpecCrash == InitCrash /\ [][NextCrash]_vars

(***************************************************************************)
(* SpecReader: a command-line process that runs a search or a stats        *)
(* command beside one that runs an index or an update command. main()      *)
(* constructs the engine (a load), runs the command, and calls             *)
(* engine.close(), which is saveIndex(), in its finally block whatever the *)
(* command was.                                                            *)
(***************************************************************************)
Reader == 1
Writer == 2

ReadCommands ==
    { [ dirPath |-> RootA, op |-> o, force |-> FALSE ] : o \in {"search", "stats"} }

InitReader ==
    /\ fs = SomeFiles
    /\ disk \in {Missing, Seeded}
    /\ engine = NotBuilt
    /\ lastCall = NoCall
    /\ procs \in { [ p \in Procs |-> [ st |-> NotBuilt, pc |-> "start",
                                      cmd |-> IF p = Reader THEN r ELSE w ] ] :
                     r \in ReadCommands, w \in Commands }
    /\ events = <<>>

\* await engine.search(query, extensions, limit) / await engine.getStats():
\* neither assigns to this.index nor writes a file
RunRead(p) ==
    /\ procs[p].pc = "loaded"
    /\ procs[p].cmd.op \in {"search", "stats"}
    /\ procs' = [ procs EXCEPT ![p].pc = "ran" ]
    /\ UNCHANGED <<fs, disk, engine, lastCall, events>>

\* await engine.indexDirectory(...) / await engine.update()
RunWrite(p) ==
    /\ procs[p].cmd.op \in {"index", "update"}
    /\ Run(p)

NextReader == \E p \in Procs : Load(p) \/ RunRead(p) \/ RunWrite(p) \/ Close(p)

SpecReader == InitReader /\ [][NextReader]_vars

(***************************************************************************)
(* SpecTree: one engine that indexes, besides /a and /ab, the directory /l, *)
(* which holds a.md, the subdirectory k that cannot be listed, and z.md    *)
(***************************************************************************)
NextTree ==
    \/ Construct
    \/ \E d \in Roots \cup TreeRoots, force \in BOOLEAN : IndexDirectoryCall(d, force)
    \/ UpdateCall
    \/ \E p \in MutablePaths : \E file \in Versions(p) : WriteFile(p, file)
    \/ \E p \in MutablePaths : DeleteFile(p)

SpecTree == Init /\ [][NextTree]_vars

(***************************************************************************)
(* SpecSearch: one engine that indexes the directories /a, /ab and /s and  *)
(* is searched, while another program rewrites /a/x.md                     *)
(***************************************************************************)
ExtMd == <<"m","d">>
ExtTxt == <<"t","x","t">>
ExtensionLists == { <<>>, <<ExtMd>>, <<ExtTxt>> }
Limits == {0, 1, 20}

InitSearch ==
    /\ fs = SomeFiles
    /\ disk \in {Missing, Json(JsNull)}
    /\ engine = NotBuilt
    /\ lastCall = NoCall
    /\ procs = <<>>
    /\ events = <<>>

SearchCall(query, extensions, limit) ==
    /\ Built
    /\ lastCall' = search(engine, query, extensions, limit)
    /\ UNCHANGED <<fs, disk, engine, procs, events>>

NextSearch ==
    \/ Construct
    \/ \E d \in CrawlRoots, force \in BOOLEAN : IndexDirectoryCall(d, force)
    \/ UpdateCall
    \/ WriteFile(PathX, TextFile(TextA, MaxMtime))
    \/ \E q \in Queries, e \in ExtensionLists, l \in Limits : SearchCall(q, e, l)

SpecSearch == InitSearch /\ [][NextSearch]_vars

(***************************************************************************)
(* SpecTokenize: tokenize applied to a text twice, as addDocument applies  *)
(* it to a file's content and search applies it to a query                 *)
(***************************************************************************)
\* a word of n characters
WordOf(n) == [ i \in 1..n |-> "a" ]

\* the texts are made of at most MaxPieces of these pieces: words of one and
\* of two characters, in upper and lower case, with '_' and a digit; white
\* space and punctuation; and words at and over the upper length limit
Pieces ==
    { <<"a">>, <<"A","b">>, <<"_","9">>, <<" ">>, <<"\n">>, <<",">>,
      WordOf(MaxTokenLen), WordOf(MaxTokenLen + 1) }

RECURSIVE Concatenations(_)
Concatenations(n) ==
    IF n = 0 THEN { <<>> }
    ELSE LET shorter == Concatenations(n - 1)
         IN  shorter \cup { t \o p : t \in shorter, p \in Pieces }

TokenizerInputs == Concatenations(MaxPieces)

InitTokenize ==
    /\ fs = NoFiles
    /\ disk = Missing
    /\ engine = NotBuilt
    /\ lastCall \in { [ op |-> "text", text |-> t ] : t \in TokenizerInputs }
    /\ procs = <<>>
    /\ events = <<>>

\* const tokens = this.tokenize(content)
TokenizeContent ==
    /\ lastCall.op = "text"
    /\ lastCall' = [ op |-> "indexed", text |-> lastCall.text,
                     tokens |-> tokenize(lastCall.text) ]
    /\ UNCHANGED <<fs, disk, engine, procs, events>>

\* const queryTokens = this.tokenize(query), on the same string
TokenizeQuery ==
    /\ lastCall.op = "indexed"
    /\ lastCall' = [ op |-> "queried", text |-> lastCall.text,
                     tokens |-> lastCall.tokens,
                     queryTokens |-> tokenize(lastCall.text) ]
    /\ UNCHANGED <<fs, disk, engine, procs, events>>

NextTokenize == TokenizeContent \/ TokenizeQuery

SpecTokenize == InitTokenize /\ [][NextTokenize]_vars

(***************************************************************************)
(* SpecIgnore: ig.ignores applied to a relative path, as walkDir applies   *)
(* it to a file entry (relativePath) and to a directory entry              *)
(* (relativePath + '/'), for pattern lists of at most MaxPatterns lines    *)
(***************************************************************************)
\* pattern lines: a directory pattern, a plain name, a suffix glob, and a
\* plain name with a dot
PatternLines ==
    { <<"d","/">>, <<"d">>, <<"*",".","x">>, <<".","e">> }

RECURSIVE PatternLists(_)
PatternLists(n) ==
    IF n = 0 THEN { <<>> }
    ELSE LET shorter == PatternLists(n - 1)
         IN  shorter \cup { Append(l, p) : l \in shorter, p \in PatternLines }

\* relative paths of entries
RelativePaths ==
    { <<"d">>, <<"d","/","f">>, <<"d","\\","f">>, <<"d","f">>, <<"e","/","d">>,
      <<"f",".","x">>, <<"f",".","x","/","g">>, <<"*",".","x">>, <<"*",".","x","/","g">>,
      <<".","e">>, <<".","e","/","f">>, <<"g">> }

InitIgnore ==
    /\ fs = NoFiles
    /\ disk = Missing
    /\ engine = NotBuilt
    /\ lastCall \in { [ patterns |-> l, op |-> "entry", path |-> p ] :
                        l \in PatternLists(MaxPatterns), p \in RelativePaths }
    /\ procs = <<>>
    /\ events = <<>>

\* ig.ignores(relativePath), for an entry that is a file
IgnoresFile ==
    /\ lastCall.op = "entry"
    /\ lastCall' = [ patterns |-> lastCall.patterns, op |-> "ignores",
                     path |-> lastCall.path,
                     ignored |-> ignores(lastCall.patterns, lastCall.path) ]
    /\ UNCHANGED <<fs, disk, engine, procs, events>>

\* ig.ignores(relativePath + '/'), for an entry that is a directory
IgnoresDirectory ==
    /\ lastCall.op = "entry"
    /\ lastCall' = [ patterns |-> lastCall.patterns, op |-> "ignores",
                     path |-> lastCall.path \o <<"/">>,
                     ignored |-> ignores(lastCall.patterns, lastCall.path \o <<"/">>) ]
    /\ UNCHANGED <<fs, disk, engine, procs, events>>

NextIgnore == IgnoresFile \/ IgnoresDirectory

SpecIgnore == InitIgnore /\ [][NextIgnore]_vars

(***************************************************************************)
(* Properties                                                              *)
(***************************************************************************)
Index == engine.index
Usable == Built /\ IsIndex(engine.index)

\* the postings of path p: term |-> count
PostingsOf(ix, p) ==
    [ t \in { w \in DOMAIN ix.invertedIndex : p \in DOMAIN ix.invertedIndex[w] } |->
        ix.invertedIndex[t][p] ]

\* term |-> number of occurrences among the tokens of a text
TermCounts(content) ==
    LET tokens == tokenize(content)
    IN  [ t \in Range(tokens) |-> Cardinality({ i \in DOMAIN tokens : tokens[i] = t }) ]

\* p lies under the directory dirPath
Under(p, dirPath) == startsWith(p, dirPath \o <<"/">>)

\* C1: for every term that is a key of invertedIndex or of docFreq, docFreq of
\* the term is the number of paths that have a posting under the term.
C1_DocFreqCountsPostings ==
    Usable =>
        \A t \in DOMAIN Index.invertedIndex \cup DOMAIN Index.docFreq :
            /\ t \in DOMAIN Index.docFreq
            /\ Index.docFreq[t] =
                  Cardinality(IF t \in DOMAIN Index.invertedIndex
                              THEN DOMAIN Index.invertedIndex[t] ELSE {})

\* C2: after every completed call totalDocs is the number of entries of
\* documents.
C2_TotalDocsCountsDocuments ==
    Usable => Index.totalDocs = Cardinality(DOMAIN Index.documents)

\* C3: no dangling entries: invertedIndex and docFreq have the same keys, every
\* posting map is non-empty, every posting count and every docFreq is >= 1.
C3_NoDanglingEntries ==
    Usable =>
        /\ DOMAIN Index.invertedIndex = DOMAIN Index.docFreq
        /\ \A t \in DOMAIN Index.invertedIndex :
              /\ DOMAIN Index.invertedIndex[t] # {}
              /\ \A p \in DOMAIN Index.invertedIndex[t] : Index.invertedIndex[t][p] >= 1
        /\ \A t \in DOMAIN Index.docFreq :
              Index.docFreq[t] # NaN /\ Index.docFreq[t] >= 1

\* C4: right after indexDirectory(dirPath) without force has returned, calling
\* it again on the unchanged file system leaves documents, invertedIndex,
\* docFreq and totalDocs as they are and returns filesIndexed = 0.
C4_SecondIndexChangesNothing ==
    (lastCall.op = "indexDirectory" /\ ~lastCall.raised /\ ~lastCall.force) =>
        \A now \in 1..MaxTime :
            LET again == indexDirectory(engine, disk, fs, lastCall.dirPath, FALSE, now)
            IN  /\ ~again.ret.raised
                /\ Del(again.st.index, "lastUpdated") = Del(engine.index, "lastUpdated")
                /\ again.ret.filesIndexed = 0

\* C4 witness: a first call without force that indexed a file has returned
C4_Witness ==
    /\ lastCall.op = "indexDirectory" /\ ~lastCall.raised /\ ~lastCall.force
    /\ lastCall.filesIndexed >= 1
    /\ DOMAIN engine.index.documents # {}

\* C5: update() removes every stored document whose file no longer exists: the
\* path leaves documents and every posting map, totalDocs drops by the number
\* of such paths (by 1 for one deleted file) and removed reports that number.
C5_UpdateRemovesDeleted ==
    [][ (UpdateCall /\ IsIndex(engine.index)) =>
          LET gone == { p \in DOMAIN engine.index.documents : ~File(fs, p).exists }
          IN  /\ \A p \in gone :
                    /\ p \notin DOMAIN engine'.index.documents
                    /\ \A t \in DOMAIN engine'.index.invertedIndex :
                          p \notin DOMAIN engine'.index.invertedIndex[t]
              /\ engine'.index.totalDocs = engine.index.totalDocs - Cardinality(gone)
              /\ lastCall'.removed = Cardinality(gone) ]_vars

\* C5 witness: an update has just removed exactly one document, of a deleted file
C5_Witness ==
    /\ lastCall.op = "update" /\ ~lastCall.raised /\ lastCall.removed = 1
    /\ \E p \in MutablePaths : ~fs[p].exists /\ p \notin DOMAIN engine.index.documents

\* C6: when indexDirectory without force, or update, re-indexes a file whose
\* content and modification time changed, the path's postings afterwards are
\* exactly the term counts of the new content, its Document carries the new
\* modified value and totalDocs still counts the documents as it did.
C6_ReindexReplacesPostings ==
    [][ \A p \in MutablePaths :
          ( /\ UpdateCall \/ \E d \in Roots : IndexDirectoryCall(d, FALSE)
            /\ IsIndex(engine.index)
            /\ p \in DOMAIN engine.index.documents
            /\ fs[p].exists
            /\ fs[p].mtime # engine.index.documents[p].modified
            /\ fs[p].content # engine.index.documents[p].content
            /\ p \in DOMAIN engine'.index.documents
            /\ engine'.index.documents[p].modified = fs[p].mtime )
          => /\ PostingsOf(engine'.index, p) = TermCounts(fs[p].content)
             /\ Drift(engine') = Drift(engine) ]_vars

\* C7: removeDocument(path) for a path that is not a key of documents changes
\* nothing.
C7_RemoveUnknownIsNoOp ==
    [][ \A p \in MutablePaths \cup {Constructor} :
          (RemoveDocumentCall(p) /\ p \notin DOMAIN engine.index.documents)
          => engine' = engine ]_vars

\* C8: indexDirectory(rootPath, force = true) leaves every document whose path
\* is not under the directory rootPath in the index, postings unchanged.
C8_ForceKeepsOutsideDocuments ==
    [][ \A d \in Roots :
          (IndexDirectoryCall(d, TRUE) /\ IsIndex(engine.index)) =>
              \A p \in DOMAIN engine.index.documents :
                  ~Under(p, d) =>
                      /\ p \in DOMAIN engine'.index.documents
                      /\ engine'.index.documents[p] = engine.index.documents[p]
                      /\ PostingsOf(engine'.index, p) = PostingsOf(engine.index, p) ]_vars

\* C9: whatever the backing file holds, the constructed engine has a usable
\* index (the empty one for a missing or corrupt file) and no later call raises.
C9_LoadYieldsUsableIndex ==
    Built =>
        /\ IsIndex(engine.index)
        /\ ~lastCall.raised
        /\ (lastCall.op = "constructor" /\ disk \in {Missing, Corrupt})
              => engine.index = createEmptyIndex

\* C10: two processes, both loaded before either saved, both finished
AllClosed == \A p \in Procs : procs[p].pc = "closed"
BothLoadedFirst ==
    \A i, j \in DOMAIN events :
        (events[i].ev = "load" /\ events[j].ev = "save") => i < j
LastSaver == events[Len(events)].p
FirstSaver == CHOOSE p \in Procs : p # LastSaver
DocAt(ix, p) == IF p \in DOMAIN ix.documents THEN ix.documents[p] ELSE [ absent |-> TRUE ]
\* the paths whose entry in the first saver's memory the last saver's lacks
OnlyFirst ==
    { p \in MutablePaths :
        DocAt(procs[FirstSaver].st.index, p) # DocAt(procs[LastSaver].st.index, p) }

\* C10: when both processes loaded before either saved and both have saved,
\* the backing file holds the serialized in-memory index of the process that
\* saved last, and nothing the process that saved first alone had changed.
C10_LastSaveWins ==
    (AllClosed /\ BothLoadedFirst) =>
        /\ disk = Json(stringify(procs[LastSaver].st.index))
        /\ \A p \in OnlyFirst :
              DocAt(disk.text, p) # DocAt(procs[FirstSaver].st.index, p)

\* C10 witness: the interleaving is reached and a document the first saver had
\* indexed and saved is missing from the backing file
C10_Witness ==
    /\ AllClosed /\ BothLoadedFirst
    /\ \E p \in OnlyFirst :
          /\ p \in DOMAIN procs[FirstSaver].st.index.documents
          /\ p \notin DOMAIN disk.text.documents

\* C11: saving is an atomic commit: when a process is killed, the backing file
\* holds a complete index (or was never written), and a process that starts
\* after a non-empty index was persisted does not load the empty index.
C11_SaveIsAtomicCommit ==
    [][ \A p \in Procs :
          /\ Kill(p) => disk'.kind \in {"json", "missing"}
          /\ (Start(p) /\ events # <<>> /\ DOMAIN Committed.documents # {})
                => procs'[p].st.index = Committed ]_vars

\* scores as numbers: x is greater than y
Greater(x, y) == x.kind # "nan" /\ y.kind # "nan" /\ Sign(x, y) > 0
Positive(x) == x.kind = "num" /\ x.num > 0

Searched == lastCall.op = "search"
Returned == { lastCall.results[i].path : i \in DOMAIN lastCall.results }
ScoreOf(results, p) ==
    results[CHOOSE i \in DOMAIN results : results[i].path = p].score
\* the terms (own keys of invertedIndex) under which p has a posting
TermsOf(ix, p) == { t \in DOMAIN ix.invertedIndex : p \in DOMAIN ix.invertedIndex[t] }
\* the queries the tokenizer finds no token in
EmptyQueries == {QOneLetter, QEmpty, QPunctuation}

\* C12: a search whose query has no token ('a', the empty string, only
\* punctuation) returns the empty sequence, raises nothing and leaves the
\* index as it is, whatever the index is.
C12_EmptyQueryReturnsNothing ==
    [][ \A q \in EmptyQueries, e \in ExtensionLists, l \in Limits :
          SearchCall(q, e, l) =>
              /\ ~lastCall'.raised
              /\ lastCall'.results = <<>>
              /\ engine' = engine ]_vars

\* C12 witness: such a search has returned, on an index that holds documents
C12_Witness ==
    /\ Searched /\ lastCall.query \in EmptyQueries /\ ~lastCall.raised
    /\ Usable /\ DOMAIN engine.index.documents # {}

\* C13: without extension filter and with limit >= totalDocs, the paths search
\* returns are exactly the documents with a posting for at least one token of
\* the query, and every document whose content has a token of the query is
\* among them.
C13_SearchIsUnionOfPostings ==
    ( /\ Searched /\ ~lastCall.raised /\ Usable
      /\ lastCall.extensions = <<>>
      /\ lastCall.limit >= Index.totalDocs ) =>
        LET tokens == Range(QueryTokens[lastCall.query])
        IN  /\ Returned = { p \in DOMAIN Index.documents : TermsOf(Index, p) \cap tokens # {} }
            /\ \A p \in DOMAIN Index.documents :
                  Range(Analysed[Index.documents[p].content].tokens) \cap tokens # {}
                      => p \in Returned

\* C14: for a query with several distinct terms, search returns only documents
\* that contain all the terms of the query.
C14_SearchIntersectsPostings ==
    ( /\ Searched /\ ~lastCall.raised /\ Usable
      /\ Cardinality(Range(QueryTokens[lastCall.query])) >= 2 ) =>
        \A p \in Returned :
            Range(QueryTokens[lastCall.query])
                \subseteq Range(Analysed[Index.documents[p].content].tokens)

\* C15: with exactly a.txt = 'apple banana apple' and b.txt = 'banana cherry'
\* indexed: wordCount is 3 and 2, docFreq is 1, 2, 1 for apple, banana,
\* cherry, totalDocs is 2; search('apple') returns a.txt alone with score
\* 2/3 * (ln(3/2) + 1); search('banana') returns b.txt with score 1/2 * 1 and
\* then a.txt with score 1/3 * 1.
ScenarioIndexed == Usable /\ DOMAIN Index.documents = {PathSA, PathSB}
C15_AppleBananaScenario ==
    ScenarioIndexed =>
        /\ Index.documents[PathSA].wordCount = 3
        /\ Index.documents[PathSB].wordCount = 2
        /\ Index.docFreq[QApple] = 1
        /\ Index.docFreq[QBanana] = 2
        /\ Index.docFreq[<<"c","h","e","r","r","y">>] = 1
        /\ Index.totalDocs = 2
        /\ (Searched /\ lastCall.extensions = <<>> /\ lastCall.limit = 20) =>
              /\ lastCall.query = QApple =>
                    lastCall.results =
                        << [ filename |-> basename(PathSA),
                             score |-> Number(2 * (LnMicro[3] - LnMicro[2] + Micro), 3),
                             path |-> PathSA ] >>
              /\ lastCall.query = QBanana =>
                    lastCall.results =
                        << [ filename |-> basename(PathSB), score |-> Number(1 * Micro, 2),
                             path |-> PathSB ],
                           [ filename |-> basename(PathSA), score |-> Number(1 * Micro, 3),
                             path |-> PathSA ] >>

\* C15 witness: search('banana') has returned on that index
C15_Witness ==
    /\ ScenarioIndexed /\ Searched /\ lastCall.query = QBanana
    /\ lastCall.extensions = <<>> /\ lastCall.limit = 20 /\ Len(lastCall.results) = 2

\* C16: every term of the index has 1 <= docFreq <= totalDocs, so its idf
\* weight is at least 1, and every score search returns is positive.
C16_IdfAtLeastOne ==
    Usable =>
        /\ \A t \in DOMAIN Index.invertedIndex \cup DOMAIN Index.docFreq :
              /\ t \in DOMAIN Index.docFreq
              /\ Index.docFreq[t] >= 1 /\ Index.docFreq[t] <= Index.totalDocs
              /\ idf(Index.totalDocs, Index.docFreq[t]).kind = "num"
              /\ idf(Index.totalDocs, Index.docFreq[t]).num >= Micro
        /\ (Searched /\ ~lastCall.raised) =>
              \A i \in DOMAIN lastCall.results : Positive(lastCall.results[i].score)

\* C17: documents A and B of equal wordCount, A with term X and B with another
\* term Y in equal counts, docFreq[X] < docFreq[Y]: the score search(X) gives
\* A is greater than the score search(Y) gives B.
RankingCase(A, B, X, Y) ==
    /\ X # Y
    /\ A \in DOMAIN Index.invertedIndex[X] /\ B \in DOMAIN Index.invertedIndex[Y]
    /\ Index.documents[A].wordCount = Index.documents[B].wordCount
    /\ Index.invertedIndex[X][A] = Index.invertedIndex[Y][B]
    /\ Index.docFreq[X] >= 1 /\ Index.docFreq[X] < Index.docFreq[Y]

C17_RarerTermScoresHigher ==
    Usable =>
        \A X, Y \in DOMAIN Index.invertedIndex :
            \A A, B \in DOMAIN Index.documents :
                RankingCase(A, B, X, Y) =>
                    LET forX == search(engine, X, <<>>, 20).results
                        forY == search(engine, Y, <<>>, 20).results
                    IN  /\ \E i \in DOMAIN forX : forX[i].path = A
                        /\ \E i \in DOMAIN forY : forY[i].path = B
                        /\ Greater(ScoreOf(forX, A), ScoreOf(forY, B))

\* C17 witness: the case occurs for two different documents, and the engine
\* has been searched
C17_Witness ==
    /\ Usable /\ Searched /\ ~lastCall.raised /\ lastCall.results # <<>>
    /\ \E X, Y \in DOMAIN Index.invertedIndex :
          \E A, B \in DOMAIN Index.documents : A # B /\ RankingCase(A, B, X, Y)

\* C18: with a non-empty extensions list every returned document has its
\* stored extension in the list; with the empty list every document with a
\* posting for a token of the query is returned (limit permitting).
C18_ExtensionFilter ==
    (Searched /\ ~lastCall.raised /\ Usable) =>
        /\ lastCall.extensions # <<>> =>
              \A p \in Returned :
                  Index.documents[p].extension \in Range(lastCall.extensions)
        /\ (lastCall.extensions = <<>> /\ lastCall.limit >= Index.totalDocs) =>
              \A p \in DOMAIN Index.documents :
                  TermsOf(Index, p) \cap Range(QueryTokens[lastCall.query]) # {}
                      => p \in Returned

\* C18 witness: a filtered search returned a document and left out one of
\* another extension that has a posting for a token of the query
C18_Witness ==
    /\ Searched /\ ~lastCall.raised /\ Usable
    /\ lastCall.extensions # <<>> /\ lastCall.results # <<>>
    /\ \E p \in DOMAIN Index.documents :
          /\ TermsOf(Index, p) \cap Range(QueryTokens[lastCall.query]) # {}
          /\ Index.documents[p].extension \notin Range(lastCall.extensions)
          /\ p \notin Returned

\* C19: search returns at most limit results, no path twice, no result with a
\* greater score after one with a smaller score, and no candidate it leaves
\* out has a greater score than one it returns.
C19_TopResultsInOrder ==
    (Searched /\ ~lastCall.raised /\ Usable) =>
        LET r   == lastCall.results
            all == search(engine, lastCall.query, lastCall.extensions,
                          Cardinality(DOMAIN Index.documents)).results
        IN  /\ Len(r) <= lastCall.limit
            /\ \A i, j \in DOMAIN r : i < j =>
                  /\ r[i].path # r[j].path
                  /\ ~Greater(r[j].score, r[i].score)
            /\ \A k \in DOMAIN all :
                  all[k].path \notin Returned =>
                      \A i \in DOMAIN r : ~Greater(all[k].score, r[i].score)

\* the files of a crawl of dirPath on which statSync or readFileSync fails
Failing(dirPath, force) ==
    { p \in Range(PathOrder) :
        LET plan == WalkPlan[dirPath][CHOOSE i \in DOMAIN PathOrder : PathOrder[i] = p]
            f    == File(fs, p)
        IN  /\ plan.entered /\ f.exists /\ ~plan.ignored /\ ~plan.binary
            /\ \/ ~f.statable
               \/ /\ f.size <= MAX_FILE_SIZE
                  /\ IsIndex(engine.index)
                  /\ force \/ ~Unchanged(engine.index, p, f)
                  /\ ~f.readable }

\* the step is the call indexDirectory(dirPath, force), files of the crawl
\* fail, and the call does what it does on the file system without these
\* files, but for counting them in ignoredFiles: their failure is not raised
\* and the other entries are processed
FailuresAreSkipped(dirPath, force) ==
    LET without == [ p \in Failing(dirPath, force) |-> NoFile ] @@ fs
    IN  \E now \in 1..MaxTime :
            LET r == indexDirectory(engine, disk, without, dirPath, force, now)
            IN  /\ lastCall'.raised = r.ret.raised
                /\ ~r.ret.raised =>
                      /\ engine' = r.st
                      /\ lastCall'.filesIndexed = r.ret.filesIndexed
                      /\ lastCall'.ignoredFiles =
                            r.ret.ignoredFiles + Cardinality(Failing(dirPath, force))

SameEntry(p) ==
    /\ DocAt(engine'.index, p) = DocAt(engine.index, p)
    /\ PostingsOf(engine'.index, p) = PostingsOf(engine.index, p)

NoEntry(p) ==
    /\ p \notin DOMAIN engine'.index.documents
    /\ DOMAIN PostingsOf(engine'.index, p) = {}

\* C20 as stated: a failure to stat or read a file during indexDirectory is
\* not raised, the file is counted in ignoredFiles, the crawl continues, and
\* the Document and the postings of the path are as they were before the call.
C20_FailedFileKeepsEntry ==
    [][ \A d \in Roots, force \in BOOLEAN :
          (IndexDirectoryCall(d, force) /\ Failing(d, force) # {}) =>
              /\ FailuresAreSkipped(d, force)
              /\ IsIndex(engine.index) => \A p \in Failing(d, force) : SameEntry(p) ]_vars

\* C20 amended: the same, with the Document and the postings of the path as
\* they were when the crawl began: as before the call without force, and
\* removed by the force step with force.
C20_FailedFileKeepsEntryUnlessForced ==
    [][ \A d \in Roots, force \in BOOLEAN :
          (IndexDirectoryCall(d, force) /\ Failing(d, force) # {}) =>
              /\ FailuresAreSkipped(d, force)
              /\ IsIndex(engine.index) =>
                    \A p \in Failing(d, force) :
                        IF force THEN NoEntry(p) ELSE SameEntry(p) ]_vars

\* C20 witness: indexDirectory without force has returned, having met an
\* indexed file that has changed and cannot be read: its Document is kept
C20_Witness ==
    /\ lastCall.op = "indexDirectory" /\ ~lastCall.raised /\ ~lastCall.force
    /\ lastCall.dirPath = RootA /\ lastCall.ignoredFiles >= 1
    /\ Usable /\ PathX \in DOMAIN Index.documents
    /\ fs[PathX].exists /\ ~fs[PathX].readable
    /\ fs[PathX].mtime # Index.documents[PathX].modified

\* the last call was indexDirectory and it returned
Crawled == lastCall.op = "indexDirectory" /\ ~lastCall.raised

\* the files walkDir(dirPath) meets: those readdirSync lists in the directories
\* it enters
VisitedFiles(dirPath) ==
    { i \in DOMAIN PathOrder :
        WalkPlan[dirPath][i].entered /\ File(fs, PathOrder[i]).exists }

\* the visited files whose current version the index holds after the crawl:
\* the files it indexed and the files it skipped as unchanged
HeldFiles(dirPath) ==
    { i \in VisitedFiles(dirPath) :
        /\ IsIndex(Index)
        /\ PathOrder[i] \in DOMAIN Index.documents
        /\ Index.documents[PathOrder[i]].modified = File(fs, PathOrder[i]).mtime }

\* C21: every visited file is indexed, skipped as unchanged, or counted in
\* binaryFiles or ignoredFiles: after indexDirectory has returned, the files it
\* visited and did not index or skip as unchanged are as many as the two
\* counters together.
C21_SkippedFilesAreCounted ==
    Crawled =>
        Cardinality(VisitedFiles(lastCall.dirPath) \ HeldFiles(lastCall.dirPath))
            = lastCall.binaryFiles + lastCall.ignoredFiles

\* p lies inside a directory below dirPath that the ignore patterns match
InIgnoredDirectory(p, dirPath) ==
    LET rel == relative(dirPath, p)
    IN  \E i \in DOMAIN rel :
           rel[i] = "/" /\ ignores(loadIgnorePatterns(dirPath), SubSeq(rel, 1, i))

\* p is a file a crawl of dirPath may index
Eligible(p, dirPath) ==
    /\ Under(p, dirPath)
    /\ ~InIgnoredDirectory(p, dirPath)
    /\ ~ignores(loadIgnorePatterns(dirPath), relative(dirPath, p))
    /\ Extension(p) \notin BINARY_EXTENSIONS
    /\ File(fs, p).exists
    /\ File(fs, p).size <= MAX_FILE_SIZE

\* the files below dirPath, outside its ignored directories, that a crawl does
\* not pass over because of their size
Countable(dirPath) ==
    { p \in Range(PathOrder) :
        /\ Under(p, dirPath)
        /\ File(fs, p).exists
        /\ ~InIgnoredDirectory(p, dirPath)
        /\ \/ Eligible(p, dirPath)
           \/ ignores(loadIgnorePatterns(dirPath), relative(dirPath, p))
           \/ Extension(p) \in BINARY_EXTENSIONS
           \/ ~File(fs, p).statable }

\* the step is an indexDirectory call on the empty index that returned
IndexedFromEmpty ==
    /\ Usable
    /\ DOMAIN Index.documents = {}
    /\ lastCall'.op = "indexDirectory"
    /\ ~lastCall'.raised
    /\ fs' = fs

\* C22: an indexDirectory(root) on the empty index leaves only Documents of
\* eligible files (under root, in no ignored directory, not ignored, not
\* binary, not over 5 MB), and counts no file of an ignored directory: the
\* three counters together do not exceed the files outside those directories.
C22_OnlyEligibleFilesIndexed ==
    [][ IndexedFromEmpty =>
          /\ \A p \in DOMAIN engine'.index.documents : Eligible(p, lastCall'.dirPath)
          /\ lastCall'.filesIndexed + lastCall'.binaryFiles + lastCall'.ignoredFiles
                <= Cardinality(Countable(lastCall'.dirPath)) ]_vars

\* C22 witness: a crawl of /a has indexed x.md alone, beside a binary file, an
\* ignored file, an oversized file and the file below the ignored dist/
C22_Witness ==
    /\ Crawled /\ lastCall.dirPath = RootA
    /\ Usable /\ DOMAIN Index.documents = {PathX}
    /\ lastCall.filesIndexed = 1 /\ lastCall.binaryFiles = 1 /\ lastCall.ignoredFiles >= 1
    /\ InIgnoredDirectory(PathDist, RootA) /\ File(fs, PathDist).exists
    /\ File(fs, PathBig).size > MAX_FILE_SIZE

\* the step is an update() call that returned
Updated ==
    /\ Usable
    /\ lastCall'.op = "update"
    /\ ~lastCall'.raised
    /\ fs' = fs

\* the stored document p whose file is there with the stored modification time
Untouched(p) ==
    /\ existsSync(fs, p)
    /\ File(fs, p).mtime = Index.documents[p].modified

\* C23: update() creates no Document (the document paths afterwards are among
\* those before), returns added = 0, and leaves the Document record and the
\* postings of every stored document whose file exists with an unchanged
\* modification time as they were.
C23_UpdateTouchesOnlyStoredPaths ==
    [][ Updated =>
          /\ DOMAIN engine'.index.documents \subseteq DOMAIN Index.documents
          /\ lastCall'.added = 0
          /\ \A p \in DOMAIN Index.documents :
                Untouched(p) =>
                    /\ p \in DOMAIN engine'.index.documents
                    /\ engine'.index.documents[p] = Index.documents[p]
                    /\ PostingsOf(engine'.index, p) = PostingsOf(Index, p)
                    /\ (p \in engine'.objectFn) = (p \in engine.objectFn) ]_vars

\* the first index from `from` on at which a run of word characters of s starts
\* (0 when there is none), and the index at which the run starting at i ends
RunStart(s, from) ==
    LET starts == { i \in from..Len(s) :
                      IsWordChar(s[i]) /\ (i = 1 \/ ~IsWordChar(s[i - 1])) }
    IN  IF starts = {} THEN 0
        ELSE CHOOSE i \in starts : \A j \in starts : i <= j
RunEnd(s, i) ==
    CHOOSE j \in i..Len(s) :
        /\ \A k \in i..j : IsWordChar(s[k])
        /\ j = Len(s) \/ ~IsWordChar(s[j + 1])

\* the maximal runs of [a-z0-9_] of s from index `from` on whose length is
\* 2..50, in order of occurrence
RECURSIVE MaximalRuns(_, _)
MaximalRuns(s, from) ==
    LET i == RunStart(s, from)
        j == RunEnd(s, i)
    IN  IF from > Len(s) \/ i = 0 THEN <<>>
        ELSE (IF j - i + 1 >= 2 /\ j - i + 1 <= 50 THEN << SubSeq(s, i, j) >> ELSE <<>>)
                 \o MaximalRuns(s, j + 1)

Tokenized == lastCall.op \in {"indexed", "queried"}

\* C24: tokenize(text) is the sequence, in order of occurrence, of the maximal
\* runs of [a-z0-9_] of the lower-cased text that are 2 to 50 characters long;
\* every token is non-empty, of [a-z0-9_] only and 2 to 50 long; a second call
\* on the same text gives the same sequence.
C24_TokenizeGivesMaximalRuns ==
    /\ Tokenized =>
          /\ lastCall.tokens = MaximalRuns([ i \in DOMAIN lastCall.text |->
                                               LowerChar(lastCall.text[i]) ], 1)
          /\ \A k \in DOMAIN lastCall.tokens :
                /\ lastCall.tokens[k] # <<>>
                /\ \A c \in Range(lastCall.tokens[k]) :
                      c \in Range(LowerChars) \cup Range(DigitChars) \cup {"_"}
                /\ Len(lastCall.tokens[k]) >= 2 /\ Len(lastCall.tokens[k]) <= 50
    /\ lastCall.op = "queried" => lastCall.queryTokens = lastCall.tokens

\* C24 witness: a text with an upper-case word, punctuation, a word of 50
\* characters and, elsewhere, a dropped word has been tokenized twice, and
\* two tokens came out
C24_Witness ==
    /\ lastCall.op = "queried"
    /\ lastCall.text = <<"A","b">> \o <<",">> \o WordOf(MaxTokenLen)
    /\ lastCall.queryTokens = << <<"a","b">>, WordOf(MaxTokenLen) >>

\* the sum of the counts of a posting function term |-> count
RECURSIVE SumCounts(_)
SumCounts(f) ==
    IF DOMAIN f = {} THEN 0
    ELSE LET t == CHOOSE x \in DOMAIN f : TRUE
         IN  f[t] + SumCounts([ x \in DOMAIN f \ {t} |-> f[x] ])

\* the step is an addDocument call for the path p, which had no Document
AddedNew(p) ==
    /\ Usable
    /\ lastCall'.op = "addDocument"
    /\ p \notin DOMAIN Index.documents
    /\ p \in DOMAIN engine'.index.documents

\* C25: addDocument for a path not yet indexed gives the path one posting for
\* every term of tokenize(content), with the number of its occurrences as the
\* count, and no other posting; wordCount is the number of tokens and the sum
\* of the path's posting counts; the postings of the other paths stay as they
\* were; and in every state a document that has a posting has wordCount >= 1.
C25_AddDocumentPostings ==
    /\ [][ \A p \in MutablePaths :
             AddedNew(p) =>
                LET doc == engine'.index.documents[p]
                IN  /\ PostingsOf(engine'.index, p) = TermCounts(doc.content)
                    /\ doc.wordCount = Len(tokenize(doc.content))
                    /\ doc.wordCount = SumCounts(PostingsOf(engine'.index, p))
                    /\ \A q \in DOMAIN Index.documents :
                          PostingsOf(engine'.index, q) = PostingsOf(Index, q) ]_vars
    /\ [](Usable =>
            \A p \in DOMAIN Index.documents :
               DOMAIN PostingsOf(Index, p) # {} => Index.documents[p].wordCount >= 1)

\* C26: a search or stats command does not change the persisted index: when it
\* runs beside an index or update command, then in every interleaving, once
\* both processes have finished, the backing file holds every Document as the
\* index or update command left it.
C26_ReadCommandKeepsPersistedIndex ==
    (AllClosed /\ procs[Reader].cmd.op \in {"search", "stats"}) =>
        /\ disk.kind = "json"
        /\ \A p \in Range(PathOrder) :
              DocAt(disk.text, p) = DocAt(procs[Writer].st.index, p)

\* p lies inside a directory that cannot be listed
InUnlistable(p) == \E d \in UnlistableDirs : Under(p, d)

\* the step is an indexDirectory call on a usable index
IndexDirectoryCalled ==
    /\ Usable
    /\ lastCall'.op = "indexDirectory"
    /\ fs' = fs

\* C27: indexDirectory on a tree with a subdirectory that cannot be listed
\* does not raise; it visits every non-ignored entry outside that
\* subdirectory (every eligible file that can be read is in the index with
\* its current modification time afterwards), sets lastUpdated and saves the
\* index at the end (the backing file holds the index as it is in memory).
C27_CrawlCompletesAndPersists ==
    [][ IndexDirectoryCalled =>
          /\ ~lastCall'.raised
          /\ \A p \in Range(PathOrder) :
                ( /\ Eligible(p, lastCall'.dirPath)
                  /\ ~InUnlistable(p)
                  /\ File(fs, p).statable /\ File(fs, p).readable )
                => /\ p \in DOMAIN engine'.index.documents
                   /\ engine'.index.documents[p].modified = File(fs, p).mtime
          /\ engine'.index.lastUpdated \in 1..MaxTime
          /\ disk' = Json(stringify(engine'.index)) ]_vars

\* the step is an indexDirectory call without force that returned
IndexedWithoutForce ==
    /\ Usable
    /\ lastCall'.op = "indexDirectory"
    /\ ~lastCall'.raised
    /\ ~lastCall'.force
    /\ fs' = fs

\* C28: indexDirectory without force removes no document path (the keys of
\* documents afterwards include those before), and a Document whose file is
\* no longer on disk keeps its record and its postings.
C28_NoForceKeepsDocuments ==
    [][ IndexedWithoutForce =>
          /\ DOMAIN Index.documents \subseteq DOMAIN engine'.index.documents
          /\ \A p \in DOMAIN Index.documents :
                ~File(fs, p).exists =>
                    /\ engine'.index.documents[p] = Index.documents[p]
                    /\ PostingsOf(engine'.index, p) = PostingsOf(Index, p)
                    /\ (p \in engine'.objectFn) = (p \in engine.objectFn) ]_vars

\* C28 witness: indexDirectory('/a') without force has returned and /a/x.md,
\* deleted from disk, is still in the index
C28_Witness ==
    /\ Crawled /\ ~lastCall.force /\ lastCall.dirPath = RootA
    /\ Usable /\ PathX \in DOMAIN Index.documents
    /\ ~fs[PathX].exists

\* shapes of a pattern line
IsDirPattern(pattern) == Len(pattern) >= 1 /\ pattern[Len(pattern)] = "/"
IsGlobPattern(pattern) == Len(pattern) >= 2 /\ pattern[1] = "*" /\ pattern[2] = "."
\* the pattern line without its trailing '/', if it has one
Stem(pattern) ==
    IF IsDirPattern(pattern) THEN SubSeq(pattern, 1, Len(pattern) - 1) ELSE pattern
\* p lies below name: it is name, a separator from seps, and possibly more
Below(p, name, seps) ==
    /\ Len(p) > Len(name)
    /\ \A i \in 1..Len(name) : p[i] = name[i]
    /\ p[Len(name) + 1] \in seps
\* p ends with '.' followed by the pattern line after its leading '*.'
HasSuffixOf(p, pattern) ==
    LET n == Len(pattern) - 1
    IN  /\ Len(p) >= n
        /\ p[Len(p) - n + 1] = "."
        /\ \A i \in 2..n : p[Len(p) - n + i] = pattern[i + 1]

IgnoresCalled == lastCall.op = "ignores"

C30_PreviewIsSingleLine ==
    Searched =>
        \A i \in DOMAIN lastCall.previews :
            \A k \in DOMAIN lastCall.previews[i] : lastCall.previews[i][k] # "\n"
====
